---- MODULE Spec2Model ----
(***************************************************************************)
(* A model of scripts/transform_sekai_like.py: the colour normaliser, the  *)
(* local-path derivation, the manifest transformer, the semaphore-gated    *)
(* downloader with retry, the per-job orchestrator and the process entry   *)
(* point that runs the two configured jobs.                                *)
(*                                                                         *)
(* Strings are sequences of one-character strings, so that upper(),        *)
(* removeprefix(), slicing, URL(...).name and int(..., 16) are computed    *)
(* the way the code computes them.                                         *)
(***************************************************************************)
EXTENDS Integers, Sequences, FiniteSets, TLC

VARIABLES
    color,      \* argument of a web_hex_to_color_tuple call
    rgba,       \* what the call returned or raised
    colorPc,    \* "call" before the call, "return" after it, "idle" when unused
    pathChars,  \* two characters of one source list
    pathOut,    \* their download results and dict(result)
    pathPc,
    tmChars,    \* chars argument of a transform_manifest call
    tmBase,     \* its base_manifest argument
    tmOut,      \* what the call returned or raised
    tmPc,
    env,                \* what each job finds: its source document, its directory, its network
    pc,                 \* where each job's transform_sekai_like is
    fetchTries,         \* failed attempts of the JSON request
    chars,              \* the parsed character list
    original_manifest,  \* the manifest read at the start, or None
    task,               \* the download tasks, one for each character
    sem,                \* the job's semaphore: its value and its queue of waiting tasks
    cli,                \* the AsyncClient of prepare_resources: "none", "open", "closed"
    disk,               \* the target directory: manifest file, checksum file, asset files
    checksum,           \* the checksum dict of transform_sekai_like
    new_manifest,       \* the transformed manifest, or None
    progress,           \* the job's progress task: total, completed, error, run (its
                        \* description, which is only displayed, is left out)
    excs,               \* what transform_task ended with: "pending", "None", "exc"
    exitStatus,         \* what _main returned; -1 while it runs
    hist                \* history: the stages a job went through, where it failed, the
                        \* tasks that wrote their file after the job was reported failed

colorVars == <<color, rgba, colorPc>>

pathVars == <<pathChars, pathOut, pathPc>>

tmVars == <<tmChars, tmBase, tmOut, tmPc>>

pureVars == <<colorVars, pathVars, tmVars>>

jobVars == <<env, pc, fetchTries, chars, original_manifest, task, sem, cli, disk,
             checksum, new_manifest, progress, excs, exitStatus, hist>>

vars == <<pureVars, jobVars>>

(***************************************************************************)
(* Bounds of the model.                                                    *)
(***************************************************************************)
MaxColorLen == 9

MaxStickers == 2

\* Optional[T]: None is the empty tuple, a value v is <<v>>.
None == <<>>

Some(v) == <<v>>

(***************************************************************************)
(* Python string primitives.                                               *)
(***************************************************************************)
LowerLetters ==
    <<"a","b","c","d","e","f","g","h","i","j","k","l","m",
      "n","o","p","q","r","s","t","u","v","w","x","y","z">>

UpperLetters ==
    <<"A","B","C","D","E","F","G","H","I","J","K","L","M",
      "N","O","P","Q","R","S","T","U","V","W","X","Y","Z">>

\* str.upper() of the letters; another character is kept
UpperOf ==
    [c \in {LowerLetters[k] : k \in 1..Len(LowerLetters)} |->
        UpperLetters[CHOOSE k \in 1..Len(LowerLetters) : LowerLetters[k] = c]]

upper_char(c) == IF c \in DOMAIN UpperOf THEN UpperOf[c] ELSE c

upper(s) == [k \in 1..Len(s) |-> upper_char(s[k])]

removeprefix(s, p) ==
    IF Len(s) >= Len(p) /\ SubSeq(s, 1, Len(p)) = p
    THEN SubSeq(s, Len(p) + 1, Len(s))
    ELSE s

HexDigits == <<"0","1","2","3","4","5","6","7","8","9","A","B","C","D","E","F">>

\* The value of a hex digit in either case
HexValueOf ==
    [c \in {HexDigits[k] : k \in 1..Len(HexDigits)} \cup {"a", "b", "c", "d", "e", "f"} |->
        (CHOOSE k \in 1..Len(HexDigits) : HexDigits[k] = upper_char(c)) - 1]

IsHexDigit(c) == c \in DOMAIN HexValueOf

HexValue(c) == HexValueOf[c]

\* int(s[i : i + 2], 16)
int16(s, i) == HexValue(s[i]) * 16 + HexValue(s[i + 1])

\* c * 2
twice(c) == <<c, c>>

(***************************************************************************)
(* web_hex_to_color_tuple.  The result is [ok |-> TRUE, val |-> <<r, g, b, *)
(* a>>], or [ok |-> FALSE, val |-> <<>>] when the call raises ValueError.  *)
(***************************************************************************)
ValueError == [ok |-> FALSE, val |-> <<>>]

\* The 8-digit string the branches of lines 123-132 build; <<>> for the else branch.
expand_rgba_order(c) ==
    IF Len(c) = 3 THEN twice(c[1]) \o twice(c[2]) \o twice(c[3]) \o <<"F", "F">>
    ELSE IF Len(c) = 4 THEN twice(c[1]) \o twice(c[2]) \o twice(c[3]) \o twice(c[4])
    ELSE IF Len(c) = 6 THEN c \o <<"F", "F">>
    ELSE IF Len(c) = 8 THEN SubSeq(c, 3, 8) \o SubSeq(c, 1, 2)
    ELSE <<>>

expand(c) ==
    IF Len(c) = 3 THEN twice(c[1]) \o twice(c[2]) \o twice(c[3]) \o <<"F", "F">>
    ELSE IF Len(c) = 4 THEN twice(c[2]) \o twice(c[3]) \o twice(c[4]) \o twice(c[1])
    ELSE IF Len(c) = 6 THEN c \o <<"F", "F">>
    ELSE IF Len(c) = 8 THEN SubSeq(c, 3, 8) \o SubSeq(c, 1, 2)
    ELSE <<>>

\* Lines 133-134: the four channels of the 8 digits e; int() raises
\* ValueError for two characters that are not a hexadecimal number (the signs
\* and blanks int() accepts are not among the characters of the model).
channels(e) ==
    IF e = <<>> THEN ValueError
    ELSE IF \E k \in 1..8 : ~IsHexDigit(e[k]) THEN ValueError
    ELSE [ok |-> TRUE,
          val |-> <<int16(e, 1), int16(e, 3), int16(e, 5), int16(e, 7)>>]

web_hex_to_color_tuple(s) == channels(expand(removeprefix(upper(s), <<"#">>)))

(***************************************************************************)
(* Characters (lines 36-64).  A character is a record; kind is "sekai" for *)
(* a SekaiCharacter and "arcaea" for an ArcaeaCharacter, and the colour    *)
(* fields a kind does not have are the empty string.  default_text is      *)
(* copied field by field into the sticker and is left out.                 *)
(***************************************************************************)
SekaiCharacter(name, character, img, col) ==
    [kind |-> "sekai", name |-> name, character |-> character, img |-> img,
     color |-> col, fill_color |-> <<>>, stroke_color |-> <<>>]

ArcaeaCharacter(name, character, img, fill, stroke) ==
    [kind |-> "arcaea", name |-> name, character |-> character, img |-> img,
     color |-> <<>>, fill_color |-> fill, stroke_color |-> stroke]

\* f"{name[0].upper()}{name[1:]}"
normalize_character_name(name) == <<upper_char(name[1])>> \o Tail(name)

\* URL(img).name: the last segment of the path.
LastSlash(s) ==
    IF \E k \in 1..Len(s) : s[k] = "/"
    THEN CHOOSE k \in 1..Len(s) : s[k] = "/" /\ \A m \in (k + 1)..Len(s) : s[m] # "/"
    ELSE 0

url_name(img) == SubSeq(img, LastSlash(img) + 1, Len(img))

\* A to_local_path that keeps the whole image reference.
to_local_path_whole_img(char) ==
    normalize_character_name(char.character) \o <<"/">> \o char.img

to_local_path(char) ==
    normalize_character_name(char.character) \o <<"/">> \o url_name(char.img)

\* calc_checksum: the hex digest of the content.
calc_checksum(content) == <<"sha256">> \o content

(***************************************************************************)
(* A dict is the sequence of its (key, value) items in insertion order.    *)
(***************************************************************************)
HasKey(d, k) == \E n \in 1..Len(d) : d[n][1] = k

\* d[k] = v
DictSet(d, k, v) ==
    IF HasKey(d, k)
    THEN [n \in 1..Len(d) |-> IF d[n][1] = k THEN <<k, v>> ELSE d[n]]
    ELSE Append(d, <<k, v>>)

\* d[k]
DictGet(d, k) == d[CHOOSE n \in 1..Len(d) : d[n][1] = k][2]

\* The indexes at which a list of items has a key for the first time.
FirstAt(items) ==
    SelectSeq([n \in 1..Len(items) |-> n],
              LAMBDA n : \A m \in 1..(n - 1) : items[m][1] # items[n][1])

\* The index at which a list of items has key k for the last time.
LastAt(items, k) ==
    CHOOSE n \in 1..Len(items) :
        items[n][1] = k /\ \A m \in (n + 1)..Len(items) : items[m][1] # k

\* dict(result): a key stands where it was inserted first and has the value
\* that was inserted last.
dict(items) ==
    [i \in 1..Len(FirstAt(items)) |->
        <<items[FirstAt(items)[i]][1],
          items[LastAt(items, items[FirstAt(items)[i]][1])][2]>>]

(***************************************************************************)
(* The checksum map's order: sorted(checksum.items(), key=lambda x:        *)
(* x[0].split("/")) (line 239).  Strings compare by code point.            *)
(***************************************************************************)
Ascii ==
    <<"#", ".", "/", "0","1","2","3","4","5","6","7","8","9">> \o UpperLetters \o LowerLetters

OrdOf == [c \in {Ascii[k] : k \in 1..Len(Ascii)} |-> CHOOSE k \in 1..Len(Ascii) : Ascii[k] = c]

ord(c) == OrdOf[c]

\* s.split("/")
RECURSIVE split(_)
split(s) ==
    IF ~\E k \in 1..Len(s) : s[k] = "/" THEN <<s>>
    ELSE LET k == CHOOSE m \in 1..Len(s) : s[m] = "/" /\ \A n \in 1..(m - 1) : s[n] # "/"
         IN  <<SubSeq(s, 1, k - 1)>> \o split(SubSeq(s, k + 1, Len(s)))

\* a < b for two strings: they agree up to a place where a ends or has the
\* smaller character.
StrLess(a, b) ==
    \E k \in 1..Len(b) :
        /\ \A m \in 1..(k - 1) : m <= Len(a) /\ a[m] = b[m]
        /\ k > Len(a) \/ ord(a[k]) < ord(b[k])

\* x < y for two lists of strings
ListLess(x, y) ==
    \E k \in 1..Len(y) :
        /\ \A m \in 1..(k - 1) : m <= Len(x) /\ x[m] = y[m]
        /\ k > Len(x) \/ StrLess(x[k], y[k])

\* The key of line 239
sort_key(item) == split(item[1])

\* The number of items a stable sort puts before the item at index i.
Before(d, i) ==
    Cardinality({m \in 1..Len(d) :
                    \/ ListLess(sort_key(d[m]), sort_key(d[i]))
                    \/ ~ListLess(sort_key(d[i]), sort_key(d[m])) /\ m < i})

\* dict(sorted(checksum.items(), key=lambda x: x[0].split("/")))
sorted_by_path(d) ==
    [n \in 1..Len(d) |-> d[CHOOSE i \in 1..Len(d) : Before(d, i) = n - 1]]

(***************************************************************************)
(* transform_manifest (lines 143-203).  A manifest keeps version, name,    *)
(* default_sticker_params, external_fonts and stickers; description,       *)
(* default_config, sticker_grid and sample_sticker are carried over the    *)
(* same way as name and are left out.                                      *)
(***************************************************************************)
WIDTH == 296

HEIGHT == 256

STROKE_COLOR == <<255, 255, 255, 255>>

\* 9 / 38, as numerator and denominator
STROKE_FACTOR == <<9, 38>>

\* Default sticker parameters that set the stroke-width factor for a Sekai source only.
default_sticker_params_sekai_only(list) ==
    [width |-> WIDTH, height |-> HEIGHT, text_align |-> "center",
     font_style |-> "normal", font_families |-> <<>>,
     stroke_color |-> IF list[1].kind = "sekai" THEN Some(STROKE_COLOR) ELSE None,
     stroke_width_factor |->
        IF list[1].kind = "sekai" THEN Some(STROKE_FACTOR) ELSE None]

\* StickerParamsOptional(...) of lines 161-171; list is not empty.
default_sticker_params(list) ==
    [width |-> WIDTH, height |-> HEIGHT, text_align |-> "center",
     font_style |-> "normal", font_families |-> <<>>,
     stroke_color |-> IF list[1].kind = "sekai" THEN Some(STROKE_COLOR) ELSE None,
     stroke_width_factor |-> Some(STROKE_FACTOR)]

text_color(char) ==
    IF char.kind = "sekai"
    THEN web_hex_to_color_tuple(char.color)
    ELSE web_hex_to_color_tuple(char.fill_color)

sticker_stroke_color(char) ==
    IF char.kind = "arcaea" THEN web_hex_to_color_tuple(char.stroke_color)
    ELSE [ok |-> TRUE, val |-> None]

\* One StickerInfoOptionalParams (lines 179-200); the colours are valid.
sticker(char) ==
    [name |-> char.name,
     category |-> normalize_character_name(char.character),
     base_image |-> to_local_path(char),
     text_color |-> text_color(char).val,
     stroke_color |->
        IF char.kind = "arcaea" THEN Some(sticker_stroke_color(char).val) ELSE None]

Raised(e) == [ok |-> FALSE, err |-> e, val |-> <<>>]

Returned(v) == [ok |-> TRUE, err |-> "", val |-> Some(v)]

transform_manifest(list, base_manifest) ==
    IF base_manifest = None /\ list = <<>>
    THEN Raised("IndexError")                                   \* list[0], line 168
    ELSE IF \E k \in 1..Len(list) :
                ~text_color(list[k]).ok \/ ~sticker_stroke_color(list[k]).ok
    THEN Raised("ValueError")                                   \* line 132
    ELSE Returned(
        [version |-> IF base_manifest # None THEN base_manifest[1].version ELSE 1,
         name |-> IF base_manifest # None THEN base_manifest[1].name ELSE "name",
         default_sticker_params |->
            IF base_manifest # None
            THEN base_manifest[1].default_sticker_params
            ELSE default_sticker_params(list),
         external_fonts |->
            IF base_manifest # None THEN base_manifest[1].external_fonts ELSE <<>>,
         stickers |-> [k \in 1..Len(list) |-> sticker(list[k])]])

(***************************************************************************)
(* The characters and manifests the specifications draw their inputs from. *)
(***************************************************************************)
Ann == SekaiCharacter("Ann", <<"a", "n", "n">>, <<"x", "/", "a">>, <<"#", "F", "0", "0">>)

\* Same normalised category and file name as Ann, from another directory.
Ann2 == SekaiCharacter("Ann2", <<"A", "n", "n">>, <<"y", "/", "a">>, <<"1", "a", "F", "F">>)

\* A colour of 2 digits.
Bob == SekaiCharacter("Bob", <<"b", "o", "b">>, <<"b">>, <<"1", "2">>)

Rin == ArcaeaCharacter("Rin", <<"r", "i", "n">>, <<"r">>,
                       <<"F", "0", "0">>, <<"#", "0", "F", "0", "F">>)

\* A stroke colour of 5 digits.
Ren == ArcaeaCharacter("Ren", <<"r", "e", "n">>, <<"e">>,
                       <<"F", "0", "0">>, <<"1", "2", "3", "4", "5">>)

FontPath == <<"f", "/", "t">>

\* A manifest a previous run left, with one external font.
BaseManifest ==
    [version |-> 3, name |-> "base",
     default_sticker_params |->
        [width |-> 100, height |-> 100, text_align |-> "left",
         font_style |-> "normal", font_families |-> <<"serif">>,
         stroke_color |-> None, stroke_width_factor |-> None],
     external_fonts |-> <<[path |-> FontPath]>>,
     stickers |-> <<sticker(Ann)>>]

\* A manifest a previous run left, without external fonts.
PlainManifest ==
    [version |-> 1, name |-> "plain",
     default_sticker_params |-> default_sticker_params(<<Ann>>),
     external_fonts |-> <<>>,
     stickers |-> <<>>]

(***************************************************************************)
(* Specification SpecColor: every call of web_hex_to_color_tuple on a hex  *)
(* string of at most MaxColorLen digits, with or without a leading '#'.    *)
(***************************************************************************)
ColorChars == {"1", "a", "F"}

HexStrings == UNION {[1..n -> ColorChars] : n \in 0..MaxColorLen}

IdleColor == color = <<>> /\ rgba = ValueError /\ colorPc = "idle"

IdlePath == pathChars = <<>> /\ pathOut = <<>> /\ pathPc = "idle"

IdleTm == tmChars = <<>> /\ tmBase = None /\ tmOut = <<>> /\ tmPc = "idle"

IdleJobs ==
    /\ env = <<>> /\ pc = <<>> /\ fetchTries = <<>> /\ chars = <<>>
    /\ original_manifest = <<>> /\ task = <<>> /\ sem = <<>> /\ cli = <<>>
    /\ disk = <<>> /\ checksum = <<>> /\ new_manifest = <<>> /\ progress = <<>>
    /\ excs = <<>> /\ exitStatus = -1 /\ hist = <<>>

InitColor ==
    /\ color \in HexStrings \cup {<<"#">> \o s : s \in HexStrings}
    /\ rgba = ValueError
    /\ colorPc = "call"
    /\ IdlePath
    /\ IdleTm
    /\ IdleJobs

CallColor ==
    /\ colorPc = "call"
    /\ rgba' = web_hex_to_color_tuple(color)
    /\ colorPc' = "return"
    /\ UNCHANGED <<color, pathVars, tmVars, jobVars>>

NextColor == CallColor

SpecColor == InitColor /\ [][NextColor]_vars

\* The digits of the argument, the optional leading '#' dropped.
Digits == IF Len(color) > 0 /\ color[1] = "#" THEN Tail(color) ELSE color

D(k) == HexValue(Digits[k])

\* C6 (as the spec states it): 3 digits -> each digit doubled and alpha 255;
\* 4 digits -> the first 3 digits doubled as R,G,B and the 4th doubled as alpha;
\* 6 digits -> R,G,B and alpha 255; 8 digits -> ARGB reordered to RGBA; any
\* other length raises.
C6_AsStated ==
    colorPc = "return" =>
        rgba = (CASE Len(Digits) = 3 ->
                        [ok |-> TRUE, val |-> <<17 * D(1), 17 * D(2), 17 * D(3), 255>>]
                  [] Len(Digits) = 4 ->
                        [ok |-> TRUE,
                         val |-> <<17 * D(1), 17 * D(2), 17 * D(3), 17 * D(4)>>]
                  [] Len(Digits) = 6 ->
                        [ok |-> TRUE,
                         val |-> <<16 * D(1) + D(2), 16 * D(3) + D(4),
                                   16 * D(5) + D(6), 255>>]
                  [] Len(Digits) = 8 ->
                        [ok |-> TRUE,
                         val |-> <<16 * D(3) + D(4), 16 * D(5) + D(6),
                                   16 * D(7) + D(8), 16 * D(1) + D(2)>>]
                  [] OTHER -> ValueError)

\* C6 (amended): as above, except that a 4-digit string is read as ARGB like an
\* 8-digit one: digits 2,3,4 doubled are R,G,B and digit 1 doubled is alpha.
C6_HexExpansion ==
    colorPc = "return" =>
        rgba = (CASE Len(Digits) = 3 ->
                        [ok |-> TRUE, val |-> <<17 * D(1), 17 * D(2), 17 * D(3), 255>>]
                  [] Len(Digits) = 4 ->
                        [ok |-> TRUE,
                         val |-> <<17 * D(2), 17 * D(3), 17 * D(4), 17 * D(1)>>]
                  [] Len(Digits) = 6 ->
                        [ok |-> TRUE,
                         val |-> <<16 * D(1) + D(2), 16 * D(3) + D(4),
                                   16 * D(5) + D(6), 255>>]
                  [] Len(Digits) = 8 ->
                        [ok |-> TRUE,
                         val |-> <<16 * D(3) + D(4), 16 * D(5) + D(6),
                                   16 * D(7) + D(8), 16 * D(1) + D(2)>>]
                  [] OTHER -> ValueError)

\* A 4-digit call with a '#' whose alpha digit differs from its blue digit has returned.
C6_Witness ==
    /\ colorPc = "return"
    /\ color = <<"#", "1", "a", "F", "F">>
    /\ rgba = [ok |-> TRUE, val |-> <<170, 255, 255, 17>>]

(***************************************************************************)
(* Specification SpecPath: two characters of one source list, their local  *)
(* paths, the (path, checksum) results of their download tasks and the     *)
(* mapping prepare_resources returns for them (lines 105-117).             *)
(***************************************************************************)
PathCategories == {<<"a", "n", "n">>, <<"A", "n", "n">>, <<"b", "o", "b">>, <<"a", "n">>}

PathImgs == {<<"a">>, <<"x", "/", "a">>, <<"y", "/", "a">>, <<"n", "/", "a">>, <<"b">>}

PathCharacters ==
    {SekaiCharacter("n", c, i, <<"F", "0", "0">>) : c \in PathCategories, i \in PathImgs}

\* The bytes the server sends for the k-th character.
PathBody(k) == <<"bytes", IF k = 1 THEN "1" ELSE "2">>

InitPath ==
    /\ pathChars \in {<<c1, c2>> : c1 \in PathCharacters, c2 \in PathCharacters}
    /\ pathOut = <<>>
    /\ pathPc = "call"
    /\ IdleColor
    /\ IdleTm
    /\ IdleJobs

\* return relative_path, checksum (line 113), for both; dict(result) (line 117)
CallPath ==
    /\ pathPc = "call"
    /\ LET result == [k \in 1..2 |->
                        <<to_local_path(pathChars[k]), calc_checksum(PathBody(k))>>]
       IN  pathOut' = [result |-> result, mapping |-> dict(result)]
    /\ pathPc' = "return"
    /\ UNCHANGED <<pathChars, colorVars, tmVars, jobVars>>

NextPath == CallPath

SpecPath == InitPath /\ [][NextPath]_vars

\* Two letters that are equal or are the two cases of one letter.
SameLetter(x, y) ==
    x = y \/ \E k \in 1..Len(LowerLetters) : {x, y} = {LowerLetters[k], UpperLetters[k]}

\* Two categories that differ at most in the case of their first letter.
SameCategory(a, b) ==
    /\ Len(a) = Len(b)
    /\ SameLetter(a[1], b[1])
    /\ \A k \in 2..Len(a) : a[k] = b[k]

\* t is the file name of img: what follows its last '/'.
IsFileName(t, img) ==
    /\ \A k \in 1..Len(t) : t[k] # "/"
    /\ Len(t) <= Len(img)
    /\ SubSeq(img, Len(img) - Len(t) + 1, Len(img)) = t
    /\ Len(t) < Len(img) => img[Len(img) - Len(t)] = "/"

SameFileName(i1, i2) ==
    \E n \in 0..Len(i1) : LET t == SubSeq(i1, Len(i1) - n + 1, Len(i1))
                          IN  IsFileName(t, i1) /\ IsFileName(t, i2)

\* C7 (as the spec states it): two characters that differ in category or in
\* image reference get different local paths, and the mapping has one entry for
\* each of them.
C7_AsStated ==
    (/\ pathPc = "return"
     /\ \/ pathChars[1].character # pathChars[2].character
        \/ pathChars[1].img # pathChars[2].img)
    => /\ pathOut.result[1][1] # pathOut.result[2][1]
       /\ Len(pathOut.mapping) = 2

\* C7 (amended): two characters get different local paths, and an entry each in
\* the mapping, exactly when their categories differ otherwise than in the case
\* of the first letter or their image references differ in the file name.
C7_PathsDiffer ==
    pathPc = "return" =>
        LET same == /\ SameCategory(pathChars[1].character, pathChars[2].character)
                    /\ SameFileName(pathChars[1].img, pathChars[2].img)
        IN  /\ ~same => /\ pathOut.result[1][1] # pathOut.result[2][1]
                        /\ Len(pathOut.mapping) = 2
                        /\ \A k \in 1..2 :
                              DictGet(pathOut.mapping, pathOut.result[k][1])
                                 = calc_checksum(PathBody(k))
            /\ same => /\ pathOut.result[1][1] = pathOut.result[2][1]
                       /\ Len(pathOut.mapping) = 1

\* Two characters of different directories and first-letter case share one path.
C7_Witness ==
    /\ pathPc = "return"
    /\ pathChars[1].character = <<"a", "n", "n">>
    /\ pathChars[2].character = <<"A", "n", "n">>
    /\ pathChars[1].img = <<"x", "/", "a">>
    /\ pathChars[2].img = <<"y", "/", "a">>
    /\ pathOut.mapping = <<<< <<"A", "n", "n", "/", "a">>, calc_checksum(PathBody(2)) >>>>

(***************************************************************************)
(* Specification SpecManifest: every call of transform_manifest on a list  *)
(* of at most MaxStickers characters of one kind, with and without a base  *)
(* manifest.                                                               *)
(***************************************************************************)
SeqsUpTo(S, n) == UNION {[1..m -> S] : m \in 0..n}

SekaiLists == SeqsUpTo({Ann, Ann2, Bob}, MaxStickers)

ArcaeaLists == SeqsUpTo({Rin, Ren}, MaxStickers)

InitManifest ==
    /\ tmChars \in SekaiLists \cup ArcaeaLists
    /\ tmBase \in {None, Some(BaseManifest), Some(PlainManifest)}
    /\ tmOut = <<>>
    /\ tmPc = "call"
    /\ IdleColor
    /\ IdlePath
    /\ IdleJobs

CallManifest ==
    /\ tmPc = "call"
    /\ tmOut' = transform_manifest(tmChars, tmBase)
    /\ tmPc' = "return"
    /\ UNCHANGED <<tmChars, tmBase, colorVars, pathVars, jobVars>>

NextManifest == CallManifest

SpecManifest == InitManifest /\ [][NextManifest]_vars

TmParams == tmOut.val[1].default_sticker_params

\* C8 (as the spec states it): without a prior manifest the default parameters
\* hold the white stroke colour and the stroke-width factor for a Sekai-like
\* source and neither of them for an Arcaea-like one; with a prior manifest its
\* default parameters are copied.
C8_AsStated ==
    (tmPc = "return" /\ tmOut.ok) =>
        IF tmBase = None
        THEN IF tmChars[1].kind = "sekai"
             THEN /\ TmParams.stroke_color = Some(<<255, 255, 255, 255>>)
                  /\ TmParams.stroke_width_factor = Some(<<9, 38>>)
             ELSE /\ TmParams.stroke_color = None
                  /\ TmParams.stroke_width_factor = None
        ELSE TmParams = tmBase[1].default_sticker_params

\* C8 (amended): without a prior manifest the default parameters hold the white
\* stroke colour only for a Sekai-like source, and the stroke-width factor 9/38
\* for both kinds of source; with a prior manifest its default parameters are
\* copied.
C8_DefaultParams ==
    (tmPc = "return" /\ tmOut.ok) =>
        IF tmBase = None
        THEN /\ TmParams.stroke_color =
                  IF tmChars[1].kind = "sekai" THEN Some(<<255, 255, 255, 255>>) ELSE None
             /\ TmParams.stroke_width_factor = Some(<<9, 38>>)
        ELSE TmParams = tmBase[1].default_sticker_params

\* An Arcaea-like source was transformed without a prior manifest.
C8_Witness ==
    /\ tmPc = "return"
    /\ tmOut.ok
    /\ tmBase = None
    /\ tmChars = <<Rin>>
    /\ TmParams.stroke_color = None
    /\ TmParams.stroke_width_factor # None

(***************************************************************************)
(* The jobs (lines 206-329).  _main runs one transform_task per entry of   *)
(* task_configs on one event loop; a job's steps are the stretches of its  *)
(* coroutines between two suspensions.                                     *)
(***************************************************************************)
\* asyncio.Semaphore(8)
SemPermits == 8

\* The attempts op_retry() makes before it lets the last error out.
RetryBudget == 2

\* The names of task_configs (lines 264-287)
Jobs == {"pjsk", "arcaea"}

\* The longest character list of the model, one more than the permits.
GateChars == 9

TaskIds == 1..GateChars

\* A JSON object that has the fields of neither character class.
OtherObject ==
    [kind |-> "other", name |-> "", character |-> <<>>, img |-> <<>>,
     color |-> <<>>, fill_color |-> <<>>, stroke_color |-> <<>>]

\* type_validate_json(Characters, text): a list of one of the two classes.
type_validate_json(doc) ==
    IF \A k \in 1..Len(doc) : doc[k].kind = "sekai" THEN Returned(doc)
    ELSE IF \A k \in 1..Len(doc) : doc[k].kind = "arcaea" THEN Returned(doc)
    ELSE Raised("ValidationError")

\* dump_readable_model(new_manifest, ...): the text of the manifest file
dump_readable_model(m) == [format |-> "readable", model |-> m]

\* type_validate_json(StickerPackManifest, manifest_path.read_text("u8"))
read_manifest(text) == text.model

\* json.dumps(checksum, ensure_ascii=False, indent=2): the text of the checksum file
json_dumps(d) == [format |-> "json", items |-> d]

\* The bytes of an external font on disk.
FontBytes == <<"font">>

\* file_path.write_bytes(content): the asset files are a set of (path, content)
\* pairs with one pair for a path.
write_bytes(files, path, content) ==
    {f \in files : f[1] # path} \cup {<<path, content>>}

\* A download task before it is scheduled.
NewTask ==
    [st |-> "new", tries |-> 0, ret |-> None, received |-> None,
     writes |-> 0, callbacks |-> 0]

Holding(t) == t.st \in {"admitted", "request", "backoff"}

Finished(t) == t.st \in {"done", "failed", "cancelled"}

AllStarted(j) == \A k \in 1..Len(task[j]) : task[j][k].st # "new"

\* A gate that lets every task in.
locked_never(s) == FALSE

\* Semaphore.locked(): no permit is left, or a task is already waiting for one.
locked(s) == s.value = 0 \/ s.waiters # <<>>

\* Semaphore.release(): the permit goes to the first waiter, if there is one.
release(s) ==
    IF s.waiters # <<>> THEN [s EXCEPT !.waiters = Tail(@)]
    ELSE [s EXCEPT !.value = @ + 1]

\* A release() that wakes nobody up.
Woken_nobody(s) == {}

\* The task release() wakes up.
Woken(s) == IF s.waiters # <<>> THEN {Head(s.waiters)} ELSE {}

\* A failed attempt under op_retry(): the task sleeps and tries again, or lets
\* the error out when the budget is used up.
retry(t) ==
    IF t.tries + 1 >= RetryBudget
    THEN [t EXCEPT !.st = "failed", !.tries = @ + 1]
    ELSE [t EXCEPT !.st = "backoff", !.tries = @ + 1]

\* The tasks of job j after task i became t; a task that ended leaves the
\* "async with semaphore" block and wakes the first waiter.
TasksAfter(j, i, t) ==
    [k \in 1..Len(task[j]) |->
        IF k = i THEN t
        ELSE IF Finished(t) /\ k \in Woken(sem[j])
        THEN [task[j][k] EXCEPT !.st = "admitted"]
        ELSE task[j][k]]

SemAfter(j, t) == IF Finished(t) THEN release(sem[j]) ELSE sem[j]

\* except Exception: ... progress.update(task_id, description="...: Error"); raise
Failed(j, stage) ==
    /\ pc' = [pc EXCEPT ![j] = "failed"]
    /\ excs' = [excs EXCEPT ![j] = "exc"]
    /\ progress' = [progress EXCEPT ![j].error = TRUE]
    /\ hist' = [hist EXCEPT ![j].failedAt = stage]

\* Lines 213-223: read the manifest the target directory holds, send the GET.
Start(j) ==
    /\ exitStatus = -1
    /\ pc[j] = "init"
    /\ original_manifest' =
          [original_manifest EXCEPT
              ![j] = IF disk[j].manifest # None
                     THEN Some(read_manifest(disk[j].manifest[1]))
                     ELSE None]
    /\ pc' = [pc EXCEPT ![j] = "fetch"]
    /\ hist' = [hist EXCEPT ![j].stages = Append(@, "Fetch-JSON")]
    /\ UNCHANGED <<pureVars, env, fetchTries, chars, task, sem, cli, disk, checksum,
                   new_manifest, progress, excs, exitStatus>>

\* Line 223: cli.get raises; op_retry() sends the request again or gives up.
FetchError(j) ==
    /\ exitStatus = -1
    /\ pc[j] = "fetch"
    /\ 0 \in env[j].faults
    /\ fetchTries' = [fetchTries EXCEPT ![j] = @ + 1]
    /\ IF fetchTries[j] + 1 >= RetryBudget
       THEN Failed(j, "Fetch-JSON")
       ELSE UNCHANGED <<pc, excs, progress, hist>>
    /\ UNCHANGED <<pureVars, env, chars, original_manifest, task, sem, cli, disk, checksum,
                   new_manifest, exitStatus>>

\* Line 223: a response that is not 2xx; raise_for_status() is outside op_retry().
FetchStatusError(j) ==
    /\ exitStatus = -1
    /\ pc[j] = "fetch"
    /\ env[j].status # 200
    /\ Failed(j, "Fetch-JSON")
    /\ UNCHANGED <<pureVars, env, fetchTries, chars, original_manifest, task, sem, cli, disk,
                   checksum, new_manifest, exitStatus>>

\* Lines 221-235 and 115-116: the document is parsed, chars_got_callback sets
\* the progress total, the semaphore and the client are made and gather()
\* schedules one download task per character.
FetchOk(j) ==
    /\ exitStatus = -1
    /\ pc[j] = "fetch"
    /\ env[j].status = 200
    /\ LET parsed == type_validate_json(env[j].doc)
       IN  IF ~parsed.ok
           THEN /\ Failed(j, "Fetch-JSON")
                /\ UNCHANGED <<chars, sem, cli, task>>
           ELSE /\ chars' = [chars EXCEPT ![j] = parsed.val[1]]
                /\ progress' = [progress EXCEPT ![j].total = Len(parsed.val[1]),
                                                ![j].run = "started"]
                /\ sem' = [sem EXCEPT ![j] = [value |-> SemPermits, waiters |-> <<>>]]
                /\ cli' = [cli EXCEPT ![j] = "open"]
                /\ task' = [task EXCEPT ![j] = [k \in 1..Len(parsed.val[1]) |-> NewTask]]
                /\ pc' = [pc EXCEPT ![j] = "download"]
                /\ hist' = [hist EXCEPT ![j].stages = Append(@, "Download-Assets")]
                /\ UNCHANGED excs
    /\ UNCHANGED <<pureVars, env, fetchTries, original_manifest, disk, checksum, new_manifest,
                   exitStatus>>

\* Lines 96-101: the next task gather() scheduled runs up to its first
\* suspension: it takes a permit and sends its request, or waits in the
\* semaphore's queue.
StartTask(j, i) ==
    /\ exitStatus = -1
    /\ i \in 1..Len(task[j])
    /\ task[j][i].st = "new"
    /\ \A k \in 1..(i - 1) : task[j][k].st # "new"
    /\ IF ~locked(sem[j])
       THEN /\ sem' = [sem EXCEPT ![j].value = @ - 1]
            /\ task' = [task EXCEPT ![j][i].st = "request"]
       ELSE /\ sem' = [sem EXCEPT ![j].waiters = Append(@, i)]
            /\ task' = [task EXCEPT ![j][i].st = "waiting"]
    /\ UNCHANGED <<pureVars, env, pc, fetchTries, chars, original_manifest, cli, disk, checksum,
                   new_manifest, progress, excs, exitStatus, hist>>

\* Lines 101-113: the response arrived; the file is written, finish_callback
\* advances the progress, the task returns and leaves the semaphore.
DownloadOk(j, i) ==
    /\ exitStatus = -1
    /\ i \in 1..Len(task[j])
    /\ AllStarted(j)
    /\ task[j][i].st = "request"
    /\ cli[j] = "open" \/ i \in env[j].buffered
    /\ \E content \in env[j].bodies :
          LET relative_path == to_local_path(chars[j][i])
              t == [task[j][i] EXCEPT
                       !.st = "done",
                       !.ret = Some(<<relative_path, calc_checksum(content)>>),
                       !.received = Some(content),
                       !.writes = @ + 1,
                       !.callbacks = @ + 1]
          IN  /\ disk' = [disk EXCEPT ![j].assets = write_bytes(@, relative_path, content)]
              /\ progress' = [progress EXCEPT ![j].completed = @ + 1]
              /\ task' = [task EXCEPT ![j] = TasksAfter(j, i, t)]
              /\ sem' = [sem EXCEPT ![j] = SemAfter(j, t)]
    /\ hist' = [hist EXCEPT ![j].late =
                   IF pc[j] = "failed" THEN @ \cup {i} ELSE @]
    /\ UNCHANGED <<pureVars, env, pc, fetchTries, chars, original_manifest, cli, checksum,
                   new_manifest, excs, exitStatus>>

\* Task k holds a permit and can only fail, because its client was closed.
Dropped(j, k) ==
    /\ cli[j] = "closed"
    /\ k \notin env[j].faults
    /\ Holding(task[j][k])

\* The closed client fails the tasks it drops in the order of their requests;
\* a request that may fail by itself fails at any time.
MayFailNow(j, i) ==
    \/ i \in env[j].faults
    \/ cli[j] = "closed" /\ \A k \in 1..(i - 1) : ~Dropped(j, k)

\* A download that writes the body before it looks at the status.
DownloadError_writes(j, i) ==
    /\ exitStatus = -1
    /\ i \in 1..Len(task[j])
    /\ AllStarted(j)
    /\ task[j][i].st = "request"
    /\ MayFailNow(j, i)
    /\ task' = [task EXCEPT
                   ![j] = TasksAfter(j, i, [retry(task[j][i]) EXCEPT !.writes = @ + 1])]
    /\ sem' = [sem EXCEPT ![j] = SemAfter(j, retry(task[j][i]))]
    /\ disk' = [disk EXCEPT
                   ![j].assets = write_bytes(@, to_local_path(chars[j][i]), <<"error">>)]
    /\ UNCHANGED <<pureVars, env, pc, fetchTries, chars, original_manifest, cli, checksum,
                   new_manifest, progress, excs, exitStatus, hist>>

\* Lines 101-103 under op_retry(): the request fails (a transport error, a
\* status that is not 2xx, a connection the closed client dropped).
DownloadError(j, i) ==
    /\ exitStatus = -1
    /\ i \in 1..Len(task[j])
    /\ AllStarted(j)
    /\ task[j][i].st = "request"
    /\ MayFailNow(j, i)
    /\ task' = [task EXCEPT ![j] = TasksAfter(j, i, retry(task[j][i]))]
    /\ sem' = [sem EXCEPT ![j] = SemAfter(j, retry(task[j][i]))]
    /\ UNCHANGED <<pureVars, env, pc, fetchTries, chars, original_manifest, cli, disk, checksum,
                   new_manifest, progress, excs, exitStatus, hist>>

\* A task the semaphore admitted, or one whose backoff ended, sends its
\* request; a closed client raises at once, which op_retry() handles too.
Resume(j, i) ==
    /\ exitStatus = -1
    /\ i \in 1..Len(task[j])
    /\ task[j][i].st \in {"admitted", "backoff"}
    /\ cli[j] = "open" \/ MayFailNow(j, i)
    /\ LET t == IF cli[j] = "open"
                THEN [task[j][i] EXCEPT !.st = "request"]
                ELSE retry(task[j][i])
       IN  /\ task' = [task EXCEPT ![j] = TasksAfter(j, i, t)]
           /\ sem' = [sem EXCEPT ![j] = SemAfter(j, t)]
    /\ UNCHANGED <<pureVars, env, pc, fetchTries, chars, original_manifest, cli, disk, checksum,
                   new_manifest, progress, excs, exitStatus, hist>>

\* A gather() that returns with the first task that is done.
GatherReturn_early(j) ==
    /\ exitStatus = -1
    /\ pc[j] = "download"
    /\ \E k \in 1..Len(task[j]) : task[j][k].st = "done"
    /\ cli' = [cli EXCEPT ![j] = "closed"]
    /\ checksum' = [checksum EXCEPT
                       ![j] = dict([n \in 1..Len(SelectSeq(task[j], LAMBDA t : t.st = "done")) |->
                                      SelectSeq(task[j], LAMBDA t : t.st = "done")[n].ret[1]])]
    /\ pc' = [pc EXCEPT ![j] = "merge"]
    /\ UNCHANGED <<pureVars, env, fetchTries, chars, original_manifest, task, sem, disk,
                   new_manifest, progress, excs, exitStatus, hist>>

\* Lines 115-117: every task returned; the client is closed and
\* prepare_resources returns dict(result), the results in the order of chars.
GatherReturn(j) ==
    /\ exitStatus = -1
    /\ pc[j] = "download"
    /\ \A k \in 1..Len(task[j]) : task[j][k].st = "done"
    /\ cli' = [cli EXCEPT ![j] = "closed"]
    /\ checksum' = [checksum EXCEPT
                       ![j] = dict([k \in 1..Len(task[j]) |-> task[j][k].ret[1]])]
    /\ pc' = [pc EXCEPT ![j] = "merge"]
    /\ UNCHANGED <<pureVars, env, fetchTries, chars, original_manifest, task, sem, disk,
                   new_manifest, progress, excs, exitStatus, hist>>

\* Lines 115-116: gather() passes the first exception on at once and leaves the
\* other tasks running; leaving the "async with" block closes their client.
GatherRaise(j) ==
    /\ exitStatus = -1
    /\ pc[j] = "download"
    /\ \E k \in 1..Len(task[j]) : task[j][k].st = "failed"
    /\ cli' = [cli EXCEPT ![j] = "closed"]
    /\ pc' = [pc EXCEPT ![j] = "abort"]
    /\ UNCHANGED <<pureVars, env, fetchTries, chars, original_manifest, task, sem, disk, checksum,
                   new_manifest, progress, excs, exitStatus, hist>>

\* A report that cancels the downloads that are left, as a task group would.
Report_cancelling(j) ==
    /\ exitStatus = -1
    /\ pc[j] = "abort"
    /\ Failed(j, "Download-Assets")
    /\ task' = [task EXCEPT
                   ![j] = [k \in 1..Len(task[j]) |->
                             IF Finished(task[j][k]) THEN task[j][k]
                             ELSE [task[j][k] EXCEPT !.st = "cancelled"]]]
    /\ UNCHANGED <<pureVars, env, fetchTries, chars, original_manifest, sem, cli, disk,
                   checksum, new_manifest, exitStatus>>

\* Lines 311-314: the exception reaches transform_task, which reports the job.
Report(j) ==
    /\ exitStatus = -1
    /\ pc[j] = "abort"
    /\ Failed(j, "Download-Assets")
    /\ UNCHANGED <<pureVars, env, fetchTries, chars, original_manifest, task, sem, cli, disk,
                   checksum, new_manifest, exitStatus>>

\* The fonts the prior manifest declares, whose files are read in order.
Fonts(j) ==
    IF original_manifest[j] = None THEN <<>> ELSE original_manifest[j][1].external_fonts

RECURSIVE merge_fonts(_, _)
merge_fonts(d, fonts) ==
    IF fonts = <<>> THEN d
    ELSE merge_fonts(DictSet(d, fonts[1].path, calc_checksum(FontBytes)), Tail(fonts))

\* A merge that takes a missing font file for an empty one.
FontMissing_never(j) == FALSE

\* calc_checksum_from_file raises for a font the directory does not hold.
FontMissing(j) == \E k \in 1..Len(Fonts(j)) : Fonts(j)[k].path \notin env[j].fonts

\* Lines 236-239: the checksums of the prior manifest's external fonts are
\* merged into the map, and the map is sorted by path.
MergeFonts(j) ==
    /\ exitStatus = -1
    /\ pc[j] = "merge"
    /\ IF FontMissing(j)
       THEN /\ pc' = [pc EXCEPT ![j] = "failed"]
            /\ excs' = [excs EXCEPT ![j] = "exc"]
            /\ progress' = [progress EXCEPT ![j].error = TRUE]
            /\ hist' = [hist EXCEPT ![j].failedAt = "Merge-Fonts",
                                    ![j].stages = Append(@, "Merge-Fonts")]
            /\ UNCHANGED checksum
       ELSE /\ checksum' = [checksum EXCEPT
                               ![j] = sorted_by_path(merge_fonts(@, Fonts(j)))]
            /\ pc' = [pc EXCEPT ![j] = "transform"]
            /\ hist' = [hist EXCEPT ![j].stages = Append(@, "Merge-Fonts")]
            /\ UNCHANGED <<excs, progress>>
    /\ UNCHANGED <<pureVars, env, fetchTries, chars, original_manifest, task, sem, cli, disk,
                   new_manifest, exitStatus>>

\* Line 241: new_manifest = await transform_manifest(chars, original_manifest)
Transform(j) ==
    /\ exitStatus = -1
    /\ pc[j] = "transform"
    /\ \E r \in {transform_manifest(chars[j], original_manifest[j])} :
          IF ~r.ok
          THEN /\ Failed(j, "Transform")
               /\ UNCHANGED new_manifest
          ELSE /\ new_manifest' = [new_manifest EXCEPT ![j] = r.val]
               /\ pc' = [pc EXCEPT ![j] = "write_manifest"]
               /\ UNCHANGED <<excs, progress, hist>>
    /\ UNCHANGED <<pureVars, env, fetchTries, chars, original_manifest, task, sem, cli, disk,
                   checksum, exitStatus>>

\* Lines 242-245: the manifest file is written.
WriteManifest(j) ==
    /\ exitStatus = -1
    /\ pc[j] = "write_manifest"
    /\ disk' = [disk EXCEPT ![j].manifest = Some(dump_readable_model(new_manifest[j][1]))]
    /\ pc' = [pc EXCEPT ![j] = "write_checksum"]
    /\ hist' = [hist EXCEPT ![j].stages = Append(@, "Write-Manifest")]
    /\ UNCHANGED <<pureVars, env, fetchTries, chars, original_manifest, task, sem, cli, checksum,
                   new_manifest, progress, excs, exitStatus>>

\* Lines 247-251 and 315: the checksum file is written, transform_sekai_like
\* returns and transform_task stops the progress task.
WriteChecksum(j) ==
    /\ exitStatus = -1
    /\ pc[j] = "write_checksum"
    /\ disk' = [disk EXCEPT ![j].checksum = Some(json_dumps(checksum[j]))]
    /\ pc' = [pc EXCEPT ![j] = "done"]
    /\ excs' = [excs EXCEPT ![j] = "None"]
    /\ progress' = [progress EXCEPT ![j].run = "stopped"]
    /\ hist' = [hist EXCEPT ![j].stages = Append(@, "Write-Checksums")]
    /\ UNCHANGED <<pureVars, env, fetchTries, chars, original_manifest, task, sem, cli, checksum,
                   new_manifest, exitStatus>>

\* any(excs): an exception object is true, None is false.
any_excs_as_all(e) == IF \A j \in Jobs : e[j] = "exc" THEN 1 ELSE 0

any_excs(e) == IF \E j \in Jobs : e[j] = "exc" THEN 1 ELSE 0

\* Lines 318-329: gather(..., return_exceptions=True) has both results, _main
\* returns the status and asyncio.run() cancels the tasks that are left.
Exit ==
    /\ exitStatus = -1
    /\ \A j \in Jobs : pc[j] \in {"done", "failed"}
    /\ exitStatus' = any_excs(excs)
    /\ task' = [j \in Jobs |->
                  [k \in 1..Len(task[j]) |->
                      IF Finished(task[j][k]) THEN task[j][k]
                      ELSE [task[j][k] EXCEPT !.st = "cancelled"]]]
    /\ sem' = [j \in Jobs |->
                  [value |-> sem[j].value
                               + Cardinality({k \in 1..Len(task[j]) : Holding(task[j][k])}),
                   waiters |-> <<>>]]
    /\ UNCHANGED <<pureVars, env, pc, fetchTries, chars, original_manifest, cli, disk, checksum,
                   new_manifest, progress, excs, hist>>

Next ==
    \/ \E j \in Jobs :
          \/ Start(j)
          \/ FetchError(j)
          \/ FetchStatusError(j)
          \/ FetchOk(j)
          \/ GatherReturn(j)
          \/ GatherRaise(j)
          \/ Report(j)
          \/ MergeFonts(j)
          \/ Transform(j)
          \/ WriteManifest(j)
          \/ WriteChecksum(j)
    \/ \E j \in Jobs, i \in TaskIds :
          \/ StartTask(j, i)
          \/ DownloadOk(j, i)
          \/ DownloadError(j, i)
          \/ Resume(j, i)
    \/ Exit

(***************************************************************************)
(* What a job finds: the document its JSON URL serves and the status of    *)
(* that response, the manifest and the font files its target directory     *)
(* holds, the requests that may fail (0 is the JSON request, k the request *)
(* for the k-th character), the characters whose response may already be   *)
(* buffered when the client is closed, and the bodies the image server may *)
(* send.                                                                   *)
(***************************************************************************)
Found(doc, status, manifest, fonts, faults, buffered, bodies) ==
    [doc |-> doc, status |-> status, manifest |-> manifest, fonts |-> fonts,
     faults |-> faults, buffered |-> buffered, bodies |-> bodies]

Body1 == <<"png", "1">>

Body2 == <<"png", "2">>

\* The checksum file a previous run left beside its manifest.
OldChecksums == json_dumps(<< <<FontPath, calc_checksum(FontBytes)>> >>)

\* The manifest file and the checksum file a job finds in its directory.
FoundDisk(e) ==
    [manifest |-> IF e.manifest = None THEN None
                  ELSE Some(dump_readable_model(e.manifest[1])),
     checksum |-> IF e.manifest = None THEN None ELSE Some(OldChecksums),
     assets |-> {}]

InitJobs(found) ==
    /\ env \in found
    /\ pc = [j \in Jobs |-> "init"]
    /\ fetchTries = [j \in Jobs |-> 0]
    /\ chars = [j \in Jobs |-> <<>>]
    /\ original_manifest = [j \in Jobs |-> None]
    /\ task = [j \in Jobs |-> <<>>]
    /\ sem = [j \in Jobs |-> [value |-> 0, waiters |-> <<>>]]
    /\ cli = [j \in Jobs |-> "none"]
    /\ disk = [j \in Jobs |-> FoundDisk(env[j])]
    /\ checksum = [j \in Jobs |-> <<>>]
    /\ new_manifest = [j \in Jobs |-> None]
    /\ progress = [j \in Jobs |->
                     [total |-> 0, completed |-> 0, error |-> FALSE, run |-> "pending"]]
    /\ excs = [j \in Jobs |-> "pending"]
    /\ exitStatus = -1
    /\ hist = [j \in Jobs |-> [stages |-> <<>>, failedAt |-> "", late |-> {}]]
    /\ IdleColor
    /\ IdlePath
    /\ IdleTm

\* Every request of a job may fail and every response may be buffered.
Unreliable(doc, status, manifest, fonts, bodies) ==
    Found(doc, status, manifest, fonts, 0..Len(doc), 1..Len(doc), bodies)

\* No request of a job fails.
Reliable(doc, status, manifest, fonts) ==
    Found(doc, status, manifest, fonts, {}, {}, {Body1})

\* The pjsk job in every situation a list of at most two characters gives.
PjskFound ==
    {Unreliable(d, 200, None, {}, {Body1}) :
        d \in {<<>>, <<Ann>>, <<Ann, Bob>>, <<Ann, OtherObject>>}}
    \cup {Unreliable(<<Ann, Ann2>>, 200, None, {}, {Body1, Body2}),
          Unreliable(<<Ann>>, 200, Some(BaseManifest), {FontPath}, {Body1}),
          Unreliable(<<Ann, Bob>>, 200, Some(BaseManifest), {FontPath}, {Body1}),
          Unreliable(<<Ann>>, 200, Some(BaseManifest), {}, {Body1}),
          Unreliable(<<>>, 200, Some(PlainManifest), {}, {Body1}),
          Reliable(<<Ann>>, 404, None, {})}

\* The arcaea job beside it: one that succeeds and two that fail.
ArcaeaFound ==
    {Reliable(<<Rin>>, 200, None, {}),
     Reliable(<<Ren>>, 200, None, {}),
     Reliable(<<Rin>>, 404, Some(PlainManifest), {})}

\* Two jobs all of whose requests may fail.
BothUnreliable ==
    {[j \in Jobs |->
        IF j = "pjsk" THEN Unreliable(<<Ann>>, 200, None, {}, {Body1})
        ELSE Unreliable(<<Rin>>, 200, m, {}, {Body1})] :
     m \in {None, Some(PlainManifest)}}

Init ==
    InitJobs({[j \in Jobs |-> IF j = "pjsk" THEN p ELSE a] :
                 p \in PjskFound, a \in ArcaeaFound}
             \cup BothUnreliable)

Spec == Init /\ [][Next]_vars


(***************************************************************************)
(* Specification SpecGate: a pjsk source of GateChars characters, more     *)
(* than the semaphore has permits, beside an arcaea job that fails at its  *)
(* JSON request.  Either no request fails, or the JSON request and the     *)
(* request for the first character may fail.                               *)
(***************************************************************************)
GateDoc ==
    [k \in 1..GateChars |->
        SekaiCharacter("c", <<"c">>, <<"i", "/", LowerLetters[k]>>, <<"F", "0", "0">>)]

GateFound ==
    {[j \in Jobs |->
        IF j = "pjsk" THEN Found(GateDoc, 200, None, {}, faults, {3}, {Body1})
        ELSE Reliable(<<Rin>>, 404, None, {})] :
     faults \in {{}, {0, 1}}}

InitGate == InitJobs(GateFound)

SpecGate == InitGate /\ [][Next]_vars

(***************************************************************************)
(* Specification SpecLive: the source of GateChars characters with no      *)
(* failing request, the same source when the request for its first         *)
(* character may fail, and a source of two characters whose requests may   *)
(* all fail.  The event loop runs every task that is ready and every       *)
(* request is answered: Next is weakly fair.                               *)
(***************************************************************************)
LiveFound ==
    {[j \in Jobs |->
        IF j = "pjsk" THEN p ELSE Reliable(<<Rin>>, 404, None, {})] :
     p \in {Found(GateDoc, 200, None, {}, {}, {}, {Body1}),
            Found(GateDoc, 200, None, {}, {1}, {}, {Body1}),
            Unreliable(<<Ann, Bob>>, 200, None, {}, {Body1})}}

InitLive == InitJobs(LiveFound)

SpecLive == InitLive /\ [][Next]_vars /\ WF_vars(Next)

(***************************************************************************)
(* What the properties of the jobs speak about.                            *)
(***************************************************************************)
StageOrder ==
    <<"Fetch-JSON", "Download-Assets", "Merge-Fonts", "Write-Manifest", "Write-Checksums">>

Stages(j) == {hist[j].stages[n] : n \in 1..Len(hist[j].stages)}

\* Neither the manifest file nor the checksum file was written.
FilesUntouched(j) ==
    /\ disk[j].manifest = FoundDisk(env[j]).manifest
    /\ disk[j].checksum = FoundDisk(env[j]).checksum
    /\ "Write-Manifest" \notin Stages(j)
    /\ "Write-Checksums" \notin Stages(j)

\* The local path of the i-th character of job j.
PathOf(j, i) == to_local_path(chars[j][i])

\* The tasks of job j that hold a permit.
Holders(j) == {k \in 1..Len(task[j]) : Holding(task[j][k])}

\* prepare_resources returned its mapping to transform_sekai_like.
MappingReturned(j) ==
    \/ pc[j] \in {"merge", "transform", "write_manifest", "write_checksum", "done"}
    \/ pc[j] = "failed" /\ hist[j].failedAt \in {"Merge-Fonts", "Transform"}

\* Every stage before the two writes succeeded, told from what the job found
\* and from what its tasks did.
UpstreamSucceeded(j) ==
    /\ env[j].status = 200
    /\ type_validate_json(env[j].doc).ok
    /\ chars[j] = env[j].doc
    /\ Len(task[j]) = Len(chars[j])
    /\ \A k \in 1..Len(task[j]) :
          /\ task[j][k].st = "done"
          /\ \E f \in disk[j].assets : f[1] = PathOf(j, k)
          /\ HasKey(checksum[j], PathOf(j, k))
    /\ \A k \in 1..Len(Fonts(j)) :
          /\ Fonts(j)[k].path \in env[j].fonts
          /\ HasKey(checksum[j], Fonts(j)[k].path)
    /\ \A k \in 1..Len(chars[j]) :
          /\ text_color(chars[j][k]).ok
          /\ sticker_stroke_color(chars[j][k]).ok
    /\ chars[j] # <<>> \/ original_manifest[j] # None
    /\ new_manifest[j] # None
    /\ hist[j].failedAt = ""

\* C1: the manifest file and the checksum file of a job are written only after
\* the JSON fetch, every download, the font merge and the transform have
\* succeeded, and a job that failed has written neither of them.
C1_NoPartialWrite ==
    \A j \in Jobs :
        /\ ~FilesUntouched(j) => UpstreamSucceeded(j)
        /\ pc[j] = "failed" => FilesUntouched(j)
        /\ pc[j] = "done" =>
              /\ disk[j].manifest = Some(dump_readable_model(new_manifest[j][1]))
              /\ disk[j].checksum = Some(json_dumps(checksum[j]))

\* A job whose downloads all succeeded failed at a missing font file, and both
\* files its directory held are as they were.
C1_Witness ==
    /\ pc["pjsk"] = "failed"
    /\ hist["pjsk"].failedAt = "Merge-Fonts"
    /\ \A k \in 1..Len(task["pjsk"]) : task["pjsk"][k].st = "done"
    /\ Len(task["pjsk"]) > 0
    /\ disk["pjsk"].manifest = Some(dump_readable_model(BaseManifest))
    /\ disk["pjsk"].checksum = Some(OldChecksums)
    /\ exitStatus # -1

\* C2: at every point at most 8 download tasks of a job hold a permit, and the
\* permits that are left and the permits that are held add up to 8.
C2_AtMostEightHolders ==
    \A j \in Jobs :
        /\ Cardinality(Holders(j)) <= 8
        /\ cli[j] # "none" => sem[j].value + Cardinality(Holders(j)) = SemPermits
        /\ sem[j].value >= 0
        /\ sem[j].waiters # <<>> => sem[j].value = 0

\* Eight tasks hold a permit, one of them between two attempts, and the ninth waits.
C2_Witness ==
    /\ Cardinality(Holders("pjsk")) = 8
    /\ \E k \in 1..Len(task["pjsk"]) : task["pjsk"][k].st = "backoff"
    /\ \E k \in 1..Len(task["pjsk"]) : task["pjsk"][k].st = "waiting"
    /\ Len(task["pjsk"]) > SemPermits

\* Everything a job owns.
JobState(j) ==
    <<pc[j], fetchTries[j], chars[j], original_manifest[j], task[j], sem[j], cli[j],
      disk[j], checksum[j], new_manifest[j], progress[j], excs[j], hist[j]>>

\* What a job finds leaves it no way to fail.
CanOnlySucceed(e) ==
    /\ e.faults = {}
    /\ e.status = 200
    /\ type_validate_json(e.doc).ok
    /\ \A k \in 1..Len(e.doc) : text_color(e.doc[k]).ok /\ sticker_stroke_color(e.doc[k]).ok
    /\ e.manifest # None => \A k \in 1..Len(e.manifest[1].external_fonts) :
                               e.manifest[1].external_fonts[k].path \in e.fonts
    /\ e.doc # <<>> \/ e.manifest # None

\* What a job finds leaves it no way to succeed.
CanOnlyFail(e) ==
    \/ e.status # 200
    \/ ~type_validate_json(e.doc).ok
    \/ \E k \in 1..Len(e.doc) : ~text_color(e.doc[k]).ok \/ ~sticker_stroke_color(e.doc[k]).ok
    \/ e.manifest # None /\ \E k \in 1..Len(e.manifest[1].external_fonts) :
                               e.manifest[1].external_fonts[k].path \notin e.fonts
    \/ e.doc = <<>> /\ e.manifest = None

C3_AtExit ==
    /\ exitStatus \in {-1, 0, 1}
    /\ exitStatus # -1 =>
          /\ \A j \in Jobs : pc[j] \in {"done", "failed"}
          /\ exitStatus = 1 <=> \E j \in Jobs : pc[j] = "failed"
          /\ \A j \in Jobs :
                /\ CanOnlySucceed(env[j]) => pc[j] = "done"
                /\ CanOnlyFail(env[j]) => pc[j] = "failed"
    /\ \A j \in Jobs :
          /\ pc[j] = "done" =>
                /\ excs[j] = "None"
                /\ disk[j].manifest = Some(dump_readable_model(new_manifest[j][1]))
                /\ disk[j].checksum = Some(json_dumps(checksum[j]))
          /\ pc[j] = "failed" <=> excs[j] = "exc"

C3_OneJobSteps ==
    exitStatus' = -1 => \E j \in Jobs : \A o \in Jobs \ {j} : JobState(o)' = JobState(o)

\* C3: the exit status is 1 exactly when a job failed and 0 otherwise; every
\* step before the exit is a step of one job that leaves the other job as it
\* is, and each job ends the way what it found decides (with its own manifest
\* and checksum file written when it succeeds), whatever the other job did.
C3_ExitStatus == [](C3_AtExit) /\ [][C3_OneJobSteps]_vars

\* The pjsk job failed, the arcaea job wrote its files, the exit status is 1.
C3_Witness ==
    /\ exitStatus = 1
    /\ pc["pjsk"] = "failed"
    /\ pc["arcaea"] = "done"
    /\ disk["arcaea"].manifest # None
    /\ disk["arcaea"].checksum # None

\* The last character of the list that has the local path of the i-th one.
LastWithPath(j, i) ==
    CHOOSE k \in 1..Len(chars[j]) :
        /\ PathOf(j, k) = PathOf(j, i)
        /\ \A m \in (k + 1)..Len(chars[j]) : PathOf(j, m) # PathOf(j, i)

\* A download that succeeded after it had failed.
Retried(j, i) ==
    /\ i \in 1..Len(task[j])
    /\ task[j][i].st = "done"
    /\ task[j][i].tries >= 1

\* C4 (as the spec states it): a download that failed fewer times than the
\* budget and then succeeded leaves, in the mapping prepare_resources returns,
\* the entry from its character's local path to the checksum of the content
\* its successful attempt received, with one write and one callback.
C4_AsStated ==
    \A j \in Jobs, i \in TaskIds :
        Retried(j, i) =>
            /\ task[j][i].writes = 1
            /\ task[j][i].callbacks = 1
            /\ MappingReturned(j) =>
                  /\ HasKey(checksum[j], PathOf(j, i))
                  /\ DictGet(checksum[j], PathOf(j, i))
                        = calc_checksum(task[j][i].received[1])

\* C4 (amended): such a download has written once and called back once, no
\* attempt that failed has written or called back, the job fails at its
\* downloads only when a task used up its budget, and the mapping holds, for
\* the character's local path, the checksum of the content received for the
\* last character of the list that has this path: its own content when no
\* later character shares the path.
C4_RetryTransparent ==
    \A j \in Jobs, i \in TaskIds :
        i \in 1..Len(task[j]) =>
            /\ task[j][i].st # "done" =>
                  /\ task[j][i].writes = 0
                  /\ task[j][i].callbacks = 0
                  /\ task[j][i].ret = None
            /\ task[j][i].st = "done" =>
                  /\ task[j][i].writes = 1
                  /\ task[j][i].callbacks = 1
                  /\ task[j][i].tries < RetryBudget
                  /\ task[j][i].ret =
                        Some(<<PathOf(j, i), calc_checksum(task[j][i].received[1])>>)
            /\ task[j][i].st = "failed" <=> task[j][i].tries = RetryBudget
            /\ hist[j].failedAt = "Download-Assets" =>
                  \E k \in 1..Len(task[j]) : task[j][k].st = "failed"
            /\ (Retried(j, i) /\ MappingReturned(j)) =>
                  /\ HasKey(checksum[j], PathOf(j, i))
                  /\ DictGet(checksum[j], PathOf(j, i))
                        = calc_checksum(task[j][LastWithPath(j, i)].received[1])
                  /\ LastWithPath(j, i) = i =>
                        DictGet(checksum[j], PathOf(j, i))
                           = calc_checksum(task[j][i].received[1])

\* The download of the first of two characters with one local path succeeded
\* at its second attempt, and the mapping holds the checksum of the other body.
C4_Witness ==
    /\ Retried("pjsk", 1)
    /\ MappingReturned("pjsk")
    /\ Len(chars["pjsk"]) = 2
    /\ PathOf("pjsk", 1) = PathOf("pjsk", 2)
    /\ task["pjsk"][1].received = Some(Body1)
    /\ DictGet(checksum["pjsk"], PathOf("pjsk", 1)) = calc_checksum(Body2)

\* C5: the stages of a job are an initial part of Fetch-JSON, Download-Assets,
\* Merge-Fonts, Write-Manifest, Write-Checksums, each at most once; no download
\* task exists before the document is parsed, the font merge starts only when
\* every download is done, and the checksum file is written after the
\* manifest file.
C5_LinearStages ==
    \A j \in Jobs :
        /\ Len(hist[j].stages) <= Len(StageOrder)
        /\ hist[j].stages = SubSeq(StageOrder, 1, Len(hist[j].stages))
        /\ task[j] # <<>> =>
              /\ "Download-Assets" \in Stages(j)
              /\ type_validate_json(env[j].doc).ok
              /\ chars[j] = env[j].doc
        /\ "Download-Assets" \notin Stages(j) => disk[j].assets = {}
        /\ "Merge-Fonts" \in Stages(j) =>
              /\ \A k \in 1..Len(task[j]) : task[j][k].st = "done"
              /\ Len(task[j]) = Len(env[j].doc)
        /\ "Merge-Fonts" \notin Stages(j) => new_manifest[j] = None
        /\ "Write-Manifest" \in Stages(j) <=>
              pc[j] \in {"write_checksum", "done"}
        /\ "Write-Checksums" \in Stages(j) =>
              disk[j].manifest = Some(dump_readable_model(new_manifest[j][1]))
        /\ "Write-Checksums" \in Stages(j) <=> pc[j] = "done"
        /\ "Write-Checksums" \notin Stages(j) =>
              disk[j].checksum = FoundDisk(env[j]).checksum

\* A job went through the five stages.
C5_Witness ==
    /\ pc["pjsk"] = "done"
    /\ hist["pjsk"].stages = StageOrder
    /\ Len(task["pjsk"]) = 2

C10_Failed ==
    \A j \in Jobs :
        /\ (\E k \in 1..Len(task[j]) : task[j][k].st = "failed") =>
              /\ pc[j] \in {"download", "abort", "failed"}
              /\ pc[j] = "failed" => hist[j].failedAt = "Download-Assets"
        /\ hist[j].failedAt = "Download-Assets" =>
              /\ pc[j] = "failed"
              /\ FilesUntouched(j)
              /\ hist[j].late \subseteq {k \in 1..Len(task[j]) : task[j][k].st = "done"}
        /\ exitStatus = -1 => \A k \in 1..Len(task[j]) : task[j][k].st # "cancelled"

C10_ReportStep ==
    \A j \in Jobs :
        (pc'[j] # pc[j] /\ pc'[j] \in {"abort", "failed"}) => task'[j] = task[j]

\* C10: once a download of a job has used up its retries the job can only be
\* reported failed; the steps that report it leave every other download task
\* of the job as it is, no task is cancelled before the process exits, and the
\* files such a task writes afterwards are asset files only.
C10_NoSiblingCancellation == [](C10_Failed) /\ [][C10_ReportStep]_vars

\* A download wrote its file and advanced the progress after its job had been
\* reported failed; no manifest file and no checksum file was written.
C10_Witness ==
    /\ pc["pjsk"] = "failed"
    /\ hist["pjsk"].failedAt = "Download-Assets"
    /\ hist["pjsk"].late # {}
    /\ progress["pjsk"].error
    /\ progress["pjsk"].completed >= 1
    /\ disk["pjsk"].assets # {}
    /\ disk["pjsk"].manifest = None
    /\ disk["pjsk"].checksum = None
    /\ exitStatus = -1

C9_Gate ==
    \A j \in Jobs :
        /\ cli[j] # "none" => sem[j].value + Cardinality(Holders(j)) = SemPermits
        /\ \A n \in 1..Len(sem[j].waiters) :
              /\ task[j][sem[j].waiters[n]].st = "waiting"
              /\ \A m \in 1..(n - 1) : sem[j].waiters[m] < sem[j].waiters[n]
        /\ pc[j] = "done" => \A k \in 1..Len(task[j]) : task[j][k].st = "done"
        /\ \A k \in 1..Len(task[j]) :
              task[j][k].st = "cancelled" => pc[j] = "failed" /\ exitStatus # -1
        /\ exitStatus # -1 =>
              /\ pc[j] \in {"done", "failed"}
              /\ \A k \in 1..Len(task[j]) : Finished(task[j][k])

C9_ArrivalOrder ==
    \A j \in Jobs, i \in TaskIds :
        (/\ i \in 1..Len(task[j])
         /\ task[j][i].st = "waiting"
         /\ task'[j][i].st # "waiting"
         /\ exitStatus' = -1)
        => /\ task'[j][i].st = "admitted"
           /\ Head(sem[j].waiters) = i
           /\ \A k \in 1..(i - 1) : task[j][k].st # "waiting"
           /\ \E k \in 1..Len(task[j]) : Holding(task[j][k]) /\ Finished(task'[j][k])

====
